---- MODULE Spec2Model ----
(***************************************************************************)
(* Model of the stork-operator charm (src/src/charm.py, src/src/stork.py). *)
(*                                                                         *)
(* One hook dispatch ("pass") runs one event handler of StorkCharm and,    *)
(* when the handler returned without raising, the collect_unit_status      *)
(* handler; the status with the highest priority among the ones added is   *)
(* then published as the unit status.  Between passes the environment      *)
(* (relation instances, relation data, the installed workload) changes.    *)
(*                                                                         *)
(* Python values:  an optional string (the result of dict.get) is <<>>     *)
(* for None and <<s>> for the string s.  The endpoints string is a         *)
(* sequence of one-character strings, so that str.split is computed.       *)
(***************************************************************************)
EXTENDS Integers, Sequences, FiniteSets, TLC

VARIABLES
    relations,          \* number of instances in self.model.relations["database"]
    relation_data,      \* list(self.database.fetch_relation_data().values())
    version,            \* what stork.get_version() returns: None or <<v>>
    running,            \* what stork.is_running() returns
    workload_version,   \* the version recorded by unit.set_workload_version
    unit_status,        \* the unit status last published
    deferred,           \* number of deferred config-changed notices
    pc,                 \* "idle" | "collect" | "done"
    event,              \* the event of the current pass ("none" between passes)
    reemitted,          \* the event of the pass is a re-emitted deferred one
    descriptor,         \* what _connection_string gave the handler of the pass
    calls,              \* collaborator calls of the pass, in order
    failed,             \* the pass raised
    event_deferred,     \* the handler of the pass called event.defer()
    collected           \* statuses added by collect_unit_status in the pass

vars == <<relations, relation_data, version, running, workload_version,
          unit_status, deferred, pc, event, reemitted, descriptor, calls,
          failed, event_deferred, collected>>

env_vars == <<relations, relation_data, version, running>>

(***************************************************************************)
(* Bounds.                                                                 *)
(***************************************************************************)
MaxRel == 2          \* database relation instances alive at once
MaxDeferred == 2     \* deferred config-changed notices kept
MaxEpLen == 3        \* length of the generated endpoints strings

(***************************************************************************)
(* Python values.                                                          *)
(***************************************************************************)
None == <<>>
Some(s) == <<s>>

\* the string "None", as endpoints.split(":") can yield it
NoneStr == <<"N", "o", "n", "e">>

Colon == ":"

\* results of an evaluation: the value None, a dict, or an exception
RNone == [kind |-> "none"]
RValue(d) == [kind |-> "value", desc |-> d]
RRaise(e) == [kind |-> "raise", exc |-> e]
NotEvaluated == [kind |-> "unset"]

\* dbconn["dbhost"] on a dbconn that is None raises TypeError
subscriptable(dbconn) == dbconn.kind = "value"

\* the test left out: no descriptor is taken to be None
is_None_never(conn) == FALSE

\* the test inverted: "is not None"
is_None_inverted(conn) == conn.kind # "none"

\* the test "self._connection_string is None" of the handlers
is_None(conn) == conn.kind = "none"

DBOPTS == "connect_timeout=5 keepalives=1 keepalives_idle=30 keepalives_count=1 tcp_user_timeout=30"

(***************************************************************************)
(* str.split(sep) for a one-character separator: the list of the pieces    *)
(* between the separators, empty pieces included.                          *)
(***************************************************************************)
RECURSIVE split(_, _)
split(s, sep) ==
    IF \A i \in 1..Len(s) : s[i] # sep
    THEN <<s>>
    ELSE LET i == CHOOSE k \in 1..Len(s) :
                      s[k] = sep /\ \A j \in 1..(k - 1) : s[j] # sep
         IN  <<SubSeq(s, 1, i - 1)>> \o split(SubSeq(s, i + 1, Len(s)), sep)

\* _connection_string with password left out of the list tested for None
connection_string_unchecked_password(rels, snap) ==
    IF rels = 0
    THEN RNone
    ELSE IF snap = <<>>
    THEN RRaise("StopIteration")
    ELSE LET data == snap[1]
             username == data.username
             password == data.password
             endpoints == data.endpoints
             database == data.database
         IN  IF username = None \/ endpoints = None
             THEN RNone
             ELSE LET parts == split(endpoints[1], Colon)
                  IN  IF Len(parts) # 2
                      THEN RRaise("ValueError")
                      ELSE LET host == parts[1]
                               port == parts[2]
                           IN  IF host = <<>> \/ host = NoneStr
                               THEN RNone
                               ELSE RValue([dbname |-> database,
                                            dbuser |-> username,
                                            dbhost |-> host,
                                            dbpass |-> password,
                                            dbport |-> port,
                                            dbopts |-> DBOPTS])

\* _connection_string without the test for the host "None"
connection_string_accepts_None_host(rels, snap) ==
    IF rels = 0
    THEN RNone
    ELSE IF snap = <<>>
    THEN RRaise("StopIteration")
    ELSE LET data == snap[1]
             username == data.username
             password == data.password
             endpoints == data.endpoints
             database == data.database
         IN  IF username = None \/ password = None \/ endpoints = None
             THEN RNone
             ELSE LET parts == split(endpoints[1], Colon)
                  IN  IF Len(parts) # 2
                      THEN RRaise("ValueError")
                      ELSE LET host == parts[1]
                               port == parts[2]
                           IN  IF host = <<>>
                               THEN RNone
                               ELSE RValue([dbname |-> database,
                                            dbuser |-> username,
                                            dbhost |-> host,
                                            dbpass |-> password,
                                            dbport |-> port,
                                            dbopts |-> DBOPTS])

\* _connection_string with the two pieces of endpoints unpacked the wrong way round
connection_string_swaps_host_port(rels, snap) ==
    IF rels = 0
    THEN RNone
    ELSE IF snap = <<>>
    THEN RRaise("StopIteration")
    ELSE LET data == snap[1]
             username == data.username
             password == data.password
             endpoints == data.endpoints
             database == data.database
         IN  IF username = None \/ password = None \/ endpoints = None
             THEN RNone
             ELSE LET parts == split(endpoints[1], Colon)
                  IN  IF Len(parts) # 2
                      THEN RRaise("ValueError")
                      ELSE LET host == parts[2]
                               port == parts[1]
                           IN  IF host = <<>> \/ host = NoneStr
                               THEN RNone
                               ELSE RValue([dbname |-> database,
                                            dbuser |-> username,
                                            dbhost |-> host,
                                            dbpass |-> password,
                                            dbport |-> port,
                                            dbopts |-> DBOPTS])

\* _connection_string that takes an empty snapshot for missing data
connection_string_empty_is_None(rels, snap) ==
    IF rels = 0
    THEN RNone
    ELSE IF snap = <<>>
    THEN RNone
    ELSE LET data == snap[1]
             username == data.username
             password == data.password
             endpoints == data.endpoints
             database == data.database
         IN  IF username = None \/ password = None \/ endpoints = None
             THEN RNone
             ELSE LET parts == split(endpoints[1], Colon)
                  IN  IF Len(parts) # 2
                      THEN RRaise("ValueError")
                      ELSE LET host == parts[1]
                               port == parts[2]
                           IN  IF host = <<>> \/ host = NoneStr
                               THEN RNone
                               ELSE RValue([dbname |-> database,
                                            dbuser |-> username,
                                            dbhost |-> host,
                                            dbpass |-> password,
                                            dbport |-> port,
                                            dbopts |-> DBOPTS])

\* _connection_string that reads the last instance fetched (db_data[-1])
connection_string_last_instance(rels, snap) ==
    IF rels = 0
    THEN RNone
    ELSE IF snap = <<>>
    THEN RRaise("StopIteration")
    ELSE LET data == snap[Len(snap)]
             username == data.username
             password == data.password
             endpoints == data.endpoints
             database == data.database
         IN  IF username = None \/ password = None \/ endpoints = None
             THEN RNone
             ELSE LET parts == split(endpoints[1], Colon)
                  IN  IF Len(parts) # 2
                      THEN RRaise("ValueError")
                      ELSE LET host == parts[1]
                               port == parts[2]
                           IN  IF host = <<>> \/ host = NoneStr
                               THEN RNone
                               ELSE RValue([dbname |-> database,
                                            dbuser |-> username,
                                            dbhost |-> host,
                                            dbpass |-> password,
                                            dbport |-> port,
                                            dbopts |-> DBOPTS])

\* _connection_string without the test for an empty host
connection_string_accepts_empty_host(rels, snap) ==
    IF rels = 0
    THEN RNone
    ELSE IF snap = <<>>
    THEN RRaise("StopIteration")
    ELSE LET data == snap[1]
             username == data.username
             password == data.password
             endpoints == data.endpoints
             database == data.database
         IN  IF username = None \/ password = None \/ endpoints = None
             THEN RNone
             ELSE LET parts == split(endpoints[1], Colon)
                  IN  IF Len(parts) # 2
                      THEN RRaise("ValueError")
                      ELSE LET host == parts[1]
                               port == parts[2]
                           IN  IF host = NoneStr
                               THEN RNone
                               ELSE RValue([dbname |-> database,
                                            dbuser |-> username,
                                            dbhost |-> host,
                                            dbpass |-> password,
                                            dbport |-> port,
                                            dbopts |-> DBOPTS])

(***************************************************************************)
(* StorkCharm._connection_string, on the relation list rels and the        *)
(* fetched relation data snap.                                             *)
(***************************************************************************)
connection_string(rels, snap) ==
    IF rels = 0
    THEN RNone
    ELSE IF snap = <<>>
    THEN RRaise("StopIteration")
    ELSE LET data == snap[1]
             username == data.username
             password == data.password
             endpoints == data.endpoints
             database == data.database
         IN  IF username = None \/ password = None \/ endpoints = None
             THEN RNone
             ELSE LET parts == split(endpoints[1], Colon)
                  IN  IF Len(parts) # 2
                      THEN RRaise("ValueError")
                      ELSE LET host == parts[1]
                               port == parts[2]
                           IN  IF host = <<>> \/ host = NoneStr
                               THEN RNone
                               ELSE RValue([dbname |-> database,
                                            dbuser |-> username,
                                            dbhost |-> host,
                                            dbpass |-> password,
                                            dbport |-> port,
                                            dbopts |-> DBOPTS])

(***************************************************************************)
(* Relation data.  A relation instance's data is a dict; a key it lacks is *)
(* None under dict.get.                                                    *)
(***************************************************************************)
Complete ==
    [username |-> Some("u"), password |-> Some("p"),
     endpoints |-> Some(<<"h", ":", "5">>), database |-> Some("db")]

\* the data the charm is run on: the complete instance, and each way of
\* departing from it in one key
CharmRelData ==
    {Complete,
     [Complete EXCEPT !.database = None],
     [Complete EXCEPT !.username = None],
     [Complete EXCEPT !.password = None],
     [Complete EXCEPT !.endpoints = None],
     [Complete EXCEPT !.endpoints = Some(NoneStr \o <<":", "5">>)],
     [Complete EXCEPT !.endpoints = Some(<<":", "5">>)],
     [Complete EXCEPT !.endpoints = Some(<<"h">>)]}

\* the data of the instances after the first: complete, or lacking a key
OtherRelData == {Complete, [Complete EXCEPT !.username = None]}

Versions == {None, Some("1.0.0")}

(***************************************************************************)
(* Statuses (ops.BlockedStatus, ops.ActiveStatus) and the choice ops makes *)
(* among the statuses added during collect-status: the first one of the    *)
(* highest priority.                                                       *)
(***************************************************************************)
BlockedStatus(m) == [name |-> "blocked", message |-> m]
ActiveStatus(m) == [name |-> "active", message |-> m]
UnknownStatus == [name |-> "unknown", message |-> ""]

priority(st) ==
    CASE st.name = "error" -> 5
      [] st.name = "blocked" -> 4
      [] st.name = "maintenance" -> 3
      [] st.name = "waiting" -> 2
      [] st.name = "active" -> 1
      [] OTHER -> 0

\* the status added last wins
get_highest_priority_last(sts) == sts[Len(sts)]

get_highest_priority(sts) ==
    sts[CHOOSE i \in 1..Len(sts) :
            /\ \A j \in 1..Len(sts) : priority(sts[j]) <= priority(sts[i])
            /\ \A j \in 1..(i - 1) : priority(sts[j]) < priority(sts[i])]

\* stork.get_status()
get_status == "This is the default normal status"

\* collect-status that resolves the descriptor before it asks for the version
collect_unit_status_resolves_first(ver, run, rels, snap) ==
    LET conn == connection_string(rels, snap)
    IN  IF conn.kind = "raise"
        THEN conn
        ELSE IF ver = None
        THEN RValue(<<BlockedStatus("isc-stork-server is not installed")>>)
        ELSE IF is_None(conn)
        THEN IF rels = 0
             THEN RValue(<<BlockedStatus("database relation missing")>>)
             ELSE RValue(<<BlockedStatus(
                      "database relation incomplete, check the logs")>>)
        ELSE RValue((IF ~run
                     THEN <<BlockedStatus("isc-stork-server is not running")>>
                     ELSE <<>>)
                    \o <<ActiveStatus(get_status)>>)

\* collect-status that tests is_running before the descriptor
collect_unit_status_running_first(ver, run, rels, snap) ==
    IF ver = None
    THEN RValue(<<BlockedStatus("isc-stork-server is not installed")>>)
    ELSE IF ~run
    THEN RValue(<<BlockedStatus("isc-stork-server is not running")>>)
    ELSE LET conn == connection_string(rels, snap)
         IN  IF conn.kind = "raise"
             THEN conn
             ELSE IF is_None(conn)
             THEN IF rels = 0
                  THEN RValue(<<BlockedStatus("database relation missing")>>)
                  ELSE RValue(<<BlockedStatus(
                           "database relation incomplete, check the logs")>>)
             ELSE RValue(<<ActiveStatus(get_status)>>)

\* collect-status without the is_running test
collect_unit_status_ignores_running(ver, run, rels, snap) ==
    IF ver = None
    THEN RValue(<<BlockedStatus("isc-stork-server is not installed")>>)
    ELSE LET conn == connection_string(rels, snap)
         IN  IF conn.kind = "raise"
             THEN conn
             ELSE IF is_None(conn)
             THEN IF rels = 0
                  THEN RValue(<<BlockedStatus("database relation missing")>>)
                  ELSE RValue(<<BlockedStatus(
                           "database relation incomplete, check the logs")>>)
             ELSE RValue(<<ActiveStatus(get_status)>>)

(***************************************************************************)
(* The statuses StorkCharm._on_collect_unit_status adds, as a result: the  *)
(* list of statuses added, or the exception _connection_string raised.     *)
(***************************************************************************)
collect_unit_status(ver, run, rels, snap) ==
    IF ver = None
    THEN RValue(<<BlockedStatus("isc-stork-server is not installed")>>)
    ELSE LET conn == connection_string(rels, snap)
         IN  IF conn.kind = "raise"
             THEN conn
             ELSE IF is_None(conn)
             THEN IF rels = 0
                  THEN RValue(<<BlockedStatus("database relation missing")>>)
                  ELSE RValue(<<BlockedStatus(
                           "database relation incomplete, check the logs")>>)
             ELSE RValue((IF ~run
                          THEN <<BlockedStatus("isc-stork-server is not running")>>
                          ELSE <<>>)
                         \o <<ActiveStatus(get_status)>>)

(***************************************************************************)
(* Collaborator calls.                                                     *)
(***************************************************************************)
Call(f, a) == [fn |-> f, arg |-> a]


Init ==
    /\ relations = 0
    /\ relation_data = <<>>
    /\ version = None
    /\ running = FALSE
    /\ workload_version = None
    /\ unit_status = UnknownStatus
    /\ deferred = 0
    /\ pc = "idle"
    /\ event = "none"
    /\ reemitted = FALSE
    /\ descriptor = NotEvaluated
    /\ calls = <<>>
    /\ failed = FALSE
    /\ event_deferred = FALSE
    /\ collected = <<>>

\* a hook can be dispatched: no pass is under way
ready == pc \in {"idle", "done"}

\* what a handler leaves: the pass goes on to collect-status unless it raised
EndHandler(ev, re, conn, cs, raised, defers) ==
    /\ event' = ev
    /\ reemitted' = re
    /\ descriptor' = conn
    /\ calls' = cs
    /\ failed' = raised
    /\ event_deferred' = defers
    /\ collected' = <<>>
    /\ pc' = IF raised THEN "done" ELSE "collect"

(***************************************************************************)
(* StorkCharm._on_install: stork.install() installs the package or raises. *)
(***************************************************************************)
on_install ==
    /\ ready
    /\ \E ok \in BOOLEAN :
          /\ version' = IF ok THEN Some("1.0.0") ELSE version
          /\ EndHandler("install", FALSE, NotEvaluated,
                        <<Call("install", RNone)>>, ~ok, FALSE)
    /\ UNCHANGED <<relations, relation_data, running, workload_version,
                   unit_status, deferred>>

(***************************************************************************)
(* StorkCharm._on_start: stork.start() does nothing.                       *)
(***************************************************************************)
on_start ==
    /\ ready
    /\ EndHandler("start", FALSE, NotEvaluated, <<Call("start", RNone)>>,
                  FALSE, FALSE)
    /\ UNCHANGED <<env_vars, workload_version, unit_status, deferred>>

\* _on_config_changed that records the workload version only once it renders
config_changed_version_on_render(re) ==
    LET conn == connection_string(relations, relation_data)
    IN  /\ workload_version' =
              IF version # None
                 /\ connection_string(relations, relation_data).kind = "value"
              THEN version
              ELSE workload_version
        /\ IF conn.kind = "raise"
           THEN /\ EndHandler("config_changed", re, conn, <<>>, TRUE, FALSE)
                /\ UNCHANGED <<env_vars, deferred>>
           ELSE IF is_None(conn)
           THEN /\ EndHandler("config_changed", re, conn, <<>>, FALSE, TRUE)
                /\ deferred' = IF re THEN deferred ELSE deferred + 1
                /\ UNCHANGED env_vars
           ELSE \E ok \in BOOLEAN, up \in BOOLEAN :
                   /\ EndHandler("config_changed", re, conn,
                         <<Call("render_and_reload",
                                connection_string(relations, relation_data))>>,
                         ~ok \/ ~subscriptable(conn), FALSE)
                   /\ running' = up
                   /\ deferred' = IF re /\ ok /\ subscriptable(conn)
                                  THEN deferred - 1 ELSE deferred
                   /\ UNCHANGED <<relations, relation_data, version>>
        /\ UNCHANGED unit_status

\* _on_config_changed that renders only when the version it recorded last differs
config_changed_renders_on_change(re) ==
    LET conn == connection_string(relations, relation_data)
    IN  /\ workload_version' = IF version # None THEN version
                                                ELSE workload_version
        /\ IF conn.kind = "raise"
           THEN /\ EndHandler("config_changed", re, conn, <<>>, TRUE, FALSE)
                /\ UNCHANGED <<env_vars, deferred>>
           ELSE IF is_None(conn)
           THEN /\ EndHandler("config_changed", re, conn, <<>>, FALSE, TRUE)
                /\ deferred' = IF re THEN deferred ELSE deferred + 1
                /\ UNCHANGED env_vars
           ELSE IF workload_version = version
           THEN /\ EndHandler("config_changed", re, conn, <<>>, FALSE, FALSE)
                /\ deferred' = IF re THEN deferred - 1 ELSE deferred
                /\ UNCHANGED env_vars
           ELSE \E ok \in BOOLEAN, up \in BOOLEAN :
                   /\ EndHandler("config_changed", re, conn,
                         <<Call("render_and_reload",
                                connection_string(relations, relation_data))>>,
                         ~ok \/ ~subscriptable(conn), FALSE)
                   /\ running' = up
                   /\ deferred' = IF re /\ ok /\ subscriptable(conn)
                                  THEN deferred - 1 ELSE deferred
                   /\ UNCHANGED <<relations, relation_data, version>>
        /\ UNCHANGED unit_status

\* _on_config_changed that does not defer an event a second time
config_changed_defers_once(re) ==
    LET conn == connection_string(relations, relation_data)
    IN  /\ workload_version' = IF version # None THEN version
                                                ELSE workload_version
        /\ IF conn.kind = "raise"
           THEN /\ EndHandler("config_changed", re, conn, <<>>, TRUE, FALSE)
                /\ UNCHANGED <<env_vars, deferred>>
           ELSE IF is_None(conn)
           THEN /\ EndHandler("config_changed", re, conn, <<>>, FALSE, ~re)
                /\ deferred' = IF re THEN deferred - 1 ELSE deferred + 1
                /\ UNCHANGED env_vars
           ELSE \E ok \in BOOLEAN, up \in BOOLEAN :
                   /\ EndHandler("config_changed", re, conn,
                         <<Call("render_and_reload",
                                connection_string(relations, relation_data))>>,
                         ~ok \/ ~subscriptable(conn), FALSE)
                   /\ running' = up
                   /\ deferred' = IF re /\ ok /\ subscriptable(conn)
                                  THEN deferred - 1 ELSE deferred
                   /\ UNCHANGED <<relations, relation_data, version>>
        /\ UNCHANGED unit_status

(***************************************************************************)
(* StorkCharm._on_config_changed, for a fresh event (re = FALSE) and for a *)
(* deferred one that the framework emits again (re = TRUE).  The notice of *)
(* a re-emitted event is dropped once its handler returns without          *)
(* deferring; it is kept when the handler defers again or raises.          *)
(* stork.render_and_reload writes the configuration and restarts the       *)
(* service, or raises; the service may or may not be up afterwards.        *)
(***************************************************************************)
config_changed(re) ==
    LET conn == connection_string(relations, relation_data)
    IN  /\ workload_version' = IF version # None THEN version
                                                ELSE workload_version
        /\ IF conn.kind = "raise"
           THEN /\ EndHandler("config_changed", re, conn, <<>>, TRUE, FALSE)
                /\ UNCHANGED <<env_vars, deferred>>
           ELSE IF is_None(conn)
           THEN /\ EndHandler("config_changed", re, conn, <<>>, FALSE, TRUE)
                /\ deferred' = IF re THEN deferred ELSE deferred + 1
                /\ UNCHANGED env_vars
           ELSE \E ok \in BOOLEAN, up \in BOOLEAN :
                   /\ EndHandler("config_changed", re, conn,
                         <<Call("render_and_reload",
                                connection_string(relations, relation_data))>>,
                         ~ok \/ ~subscriptable(conn), FALSE)
                   /\ running' = up
                   /\ deferred' = IF re /\ ok /\ subscriptable(conn)
                                  THEN deferred - 1 ELSE deferred
                   /\ UNCHANGED <<relations, relation_data, version>>
        /\ UNCHANGED unit_status

on_config_changed ==
    /\ ready
    /\ deferred < MaxDeferred
    /\ config_changed(FALSE)

reemit_config_changed ==
    /\ ready
    /\ deferred > 0
    /\ config_changed(TRUE)

(***************************************************************************)
(* StorkCharm._on_stork_relation_changed: logs the event.                  *)
(***************************************************************************)
on_stork_relation_changed ==
    /\ ready
    /\ EndHandler("stork_relation_changed", FALSE, NotEvaluated, <<>>,
                  FALSE, FALSE)
    /\ UNCHANGED <<env_vars, workload_version, unit_status, deferred>>

(***************************************************************************)
(* StorkCharm._on_database_created: stork.db_init and then                 *)
(* stork.render_and_reload, each on _connection_string.  db_init           *)
(* subscripts its argument (TypeError on None) and raises when stork-tool  *)
(* cannot be run.                                                          *)
(***************************************************************************)
on_database_created ==
    /\ ready
    /\ LET conn == connection_string(relations, relation_data)
       IN  IF conn.kind = "raise"
           THEN /\ EndHandler("database_created", FALSE, conn, <<>>, TRUE, FALSE)
                /\ UNCHANGED env_vars
           ELSE IF ~subscriptable(conn)
           THEN /\ EndHandler("database_created", FALSE, conn,
                              <<Call("db_init", conn)>>, TRUE, FALSE)
                /\ UNCHANGED env_vars
           ELSE \E init_ok \in BOOLEAN, ok \in BOOLEAN, up \in BOOLEAN :
                   IF ~init_ok
                   THEN /\ EndHandler("database_created", FALSE, conn,
                                      <<Call("db_init", conn)>>, TRUE, FALSE)
                        /\ UNCHANGED env_vars
                   ELSE /\ EndHandler("database_created", FALSE, conn,
                              <<Call("db_init", conn),
                                Call("render_and_reload",
                                     connection_string(relations, relation_data))>>,
                              ~ok, FALSE)
                        /\ running' = up
                        /\ UNCHANGED <<relations, relation_data, version>>
    /\ UNCHANGED <<workload_version, unit_status, deferred>>

\* _on_relation_broken with the status assignment that the source keeps
\* commented out
on_relation_broken_sets_status ==
    /\ ready
    /\ EndHandler("relation_broken", FALSE, NotEvaluated, <<>>, FALSE, FALSE)
    /\ unit_status' = IF relations = 0
                      THEN BlockedStatus("No database integration available")
                      ELSE unit_status
    /\ UNCHANGED <<env_vars, workload_version, deferred>>

(***************************************************************************)
(* StorkCharm._on_relation_broken: returns at once.                        *)
(***************************************************************************)
on_relation_broken ==
    /\ ready
    /\ EndHandler("relation_broken", FALSE, NotEvaluated, <<>>, FALSE, FALSE)
    /\ UNCHANGED <<env_vars, workload_version, unit_status, deferred>>

(***************************************************************************)
(* StorkCharm._on_database_endpoints_changed.                              *)
(***************************************************************************)
on_database_endpoints_changed ==
    /\ ready
    /\ LET conn == connection_string(relations, relation_data)
       IN  IF conn.kind = "raise"
           THEN /\ EndHandler("endpoints_changed", FALSE, conn, <<>>, TRUE, FALSE)
                /\ UNCHANGED env_vars
           ELSE IF is_None(conn)
           THEN /\ EndHandler("endpoints_changed", FALSE, conn, <<>>, FALSE, FALSE)
                /\ UNCHANGED env_vars
           ELSE \E ok \in BOOLEAN, up \in BOOLEAN :
                   /\ EndHandler("endpoints_changed", FALSE, conn,
                         <<Call("render_and_reload",
                                connection_string(relations, relation_data))>>,
                         ~ok \/ ~subscriptable(conn), FALSE)
                   /\ running' = up
                   /\ UNCHANGED <<relations, relation_data, version>>
    /\ UNCHANGED <<workload_version, unit_status, deferred>>

(***************************************************************************)
(* StorkCharm._on_collect_unit_status, run after the handler of the pass;  *)
(* the framework then publishes the highest-priority status added.         *)
(***************************************************************************)
on_collect_unit_status ==
    /\ pc = "collect"
    /\ LET res == collect_unit_status(version, running, relations, relation_data)
       IN  IF res.kind = "raise"
           THEN /\ failed' = TRUE
                /\ UNCHANGED <<collected, unit_status>>
           ELSE /\ collected' = res.desc
                /\ unit_status' = get_highest_priority(res.desc)
                /\ UNCHANGED failed
    /\ pc' = "done"
    /\ UNCHANGED <<env_vars, workload_version, deferred, event, reemitted,
                   descriptor, calls, event_deferred>>

(***************************************************************************)
(* The environment, between passes: relation instances come and go, the    *)
(* provider writes relation data, the workload is installed or removed and *)
(* its service starts or stops.  The process of the last pass is gone.     *)
(***************************************************************************)
BetweenPasses ==
    /\ ready
    /\ pc' = "idle"
    /\ event' = "none"
    /\ reemitted' = FALSE
    /\ descriptor' = NotEvaluated
    /\ calls' = <<>>
    /\ failed' = FALSE
    /\ event_deferred' = FALSE
    /\ collected' = <<>>
    /\ UNCHANGED <<workload_version, unit_status, deferred>>

relation_created ==
    /\ BetweenPasses
    /\ relations < MaxRel
    /\ relations' = relations + 1
    /\ UNCHANGED <<relation_data, version, running>>

relation_data_written ==
    /\ BetweenPasses
    /\ \E i \in 1..(Len(relation_data) + 1), d \in CharmRelData :
          /\ i <= relations
          /\ i > 1 => d \in OtherRelData
          /\ relation_data' = IF i <= Len(relation_data)
                              THEN [relation_data EXCEPT ![i] = d]
                              ELSE Append(relation_data, d)
    /\ UNCHANGED <<relations, version, running>>

relation_removed ==
    /\ BetweenPasses
    /\ relations > 0
    /\ relations' = relations - 1
    /\ \/ /\ Len(relation_data) < relations
          /\ UNCHANGED relation_data
       \/ \E i \in 1..Len(relation_data) :
             relation_data' = SubSeq(relation_data, 1, i - 1)
                              \o SubSeq(relation_data, i + 1, Len(relation_data))
    /\ UNCHANGED <<version, running>>

workload_changed ==
    /\ BetweenPasses
    /\ \E v \in Versions, up \in BOOLEAN :
          /\ <<v, up>> # <<version, running>>
          /\ version' = v
          /\ running' = up
    /\ UNCHANGED <<relations, relation_data>>

Next ==
    \/ on_install
    \/ on_start
    \/ on_config_changed
    \/ reemit_config_changed
    \/ on_stork_relation_changed
    \/ on_database_created
    \/ on_relation_broken
    \/ on_database_endpoints_changed
    \/ on_collect_unit_status
    \/ relation_created
    \/ relation_data_written
    \/ relation_removed
    \/ workload_changed

Spec == Init /\ [][Next]_vars

(***************************************************************************)
(* The connection resolver on its own: _connection_string applied once to  *)
(* each relation list and fetched relation data of the bounded domain.     *)
(***************************************************************************)
Alphabet == {"h", "5", ":"}

RECURSIVE StringsUpTo(_)
StringsUpTo(n) ==
    IF n = 0
    THEN {<<>>}
    ELSE LET shorter == StringsUpTo(n - 1)
         IN  shorter \cup {Append(t, c) : t \in shorter, c \in Alphabet}

\* endpoints values: every string over the alphabet, and each one again
\* behind the text "None"
EndpointStrings ==
    LET gen == StringsUpTo(MaxEpLen)
    IN  gen \cup {NoneStr \o t : t \in gen}

ResolveRelData ==
    [username : {None, Some(""), Some("u")},
     password : {None, Some("p")},
     endpoints : {None} \cup {Some(t) : t \in EndpointStrings},
     database : {None, Some("db")}]

RECURSIVE OtherData(_)
OtherData(n) ==
    IF n = 0
    THEN {<<>>}
    ELSE LET shorter == OtherData(n - 1)
         IN  shorter \cup {Append(t, d) : t \in shorter, d \in OtherRelData}

InitResolve ==
    /\ relations \in 0..MaxRel
    /\ relation_data \in
          {<<>>} \cup {<<d>> \o t : d \in ResolveRelData,
                                   t \in OtherData(MaxRel - 1)}
    /\ Len(relation_data) <= relations
    /\ version = None
    /\ running = FALSE
    /\ workload_version = None
    /\ unit_status = UnknownStatus
    /\ deferred = 0
    /\ pc = "idle"
    /\ event = "none"
    /\ reemitted = FALSE
    /\ descriptor = NotEvaluated
    /\ calls = <<>>
    /\ failed = FALSE
    /\ event_deferred = FALSE
    /\ collected = <<>>

resolve ==
    /\ pc = "idle"
    /\ descriptor' = connection_string(relations, relation_data)
    /\ pc' = "done"
    /\ UNCHANGED <<env_vars, workload_version, unit_status, deferred, event,
                   reemitted, calls, failed, event_deferred, collected>>

NextResolve == resolve

SpecResolve == InitResolve /\ [][NextResolve]_vars

(***************************************************************************)
(* Properties.                                                             *)
(***************************************************************************)
\* what _connection_string yields on the current relation data; the data
\* does not change during a pass
Resolved == connection_string(relations, relation_data)

Rendered(conn) ==
    \E i \in 1..Len(calls) : calls[i] = Call("render_and_reload", conn)

RenderInvoked == \E i \in 1..Len(calls) : calls[i].fn = "render_and_reload"

DbInitInvoked == \E i \in 1..Len(calls) : calls[i].fn = "db_init"

ConfigEvents == {"config_changed", "database_created", "endpoints_changed"}

\* C1: in a config-changed pass (fresh or re-emitted) whose descriptor is
\* None, the handler has deferred the event, a deferred notice is kept, and
\* render_and_reload has not been invoked.
C1_ConfigChangedDefers ==
    (event = "config_changed" /\ Resolved = RNone)
        => /\ event_deferred
           /\ deferred > 0
           /\ ~RenderInvoked
           /\ ~failed

C1_Witness ==
    /\ event = "config_changed"
    /\ relations > 0
    /\ Resolved = RNone
    /\ event_deferred
    /\ pc = "done"

\* C2 (as claimed): in a database-created pass whose descriptor is None the
\* event is deferred, neither db_init nor render_and_reload is invoked, and
\* the pass does not fail.
C2_DatabaseCreatedDefers ==
    (event = "database_created" /\ Resolved = RNone)
        => /\ event_deferred
           /\ ~DbInitInvoked
           /\ ~RenderInvoked
           /\ ~failed

\* C3 (as claimed): in an endpoints-changed pass whose descriptor is None
\* the event is deferred and render_and_reload is not invoked.
C3_EndpointsChangedDefers ==
    (event = "endpoints_changed" /\ Resolved = RNone)
        => /\ event_deferred
           /\ ~RenderInvoked

\* C4 (as claimed): in a pass of a configuration-affecting event whose
\* descriptor is present, render_and_reload has been invoked with that
\* descriptor and the event is not deferred.
C4_AlwaysRenders ==
    (event \in ConfigEvents /\ Resolved.kind = "value")
        => /\ Rendered(Resolved)
           /\ ~event_deferred

\* C4 (amended): in a pass of a configuration-affecting event whose
\* descriptor is present, the event is not deferred, and render_and_reload
\* has been invoked with that descriptor and with no other, unless the
\* event is database-created and db_init raised, in which case the pass
\* has failed with db_init as its only call.
C4_RendersUnlessDbInitRaises ==
    (event \in ConfigEvents /\ Resolved.kind = "value")
        => /\ ~event_deferred
           /\ \A i \in 1..Len(calls) :
                 calls[i].fn = "render_and_reload" => calls[i].arg = Resolved
           /\ \/ Rendered(Resolved)
              \/ /\ event = "database_created"
                 /\ failed
                 /\ calls = <<Call("db_init", Resolved)>>

C4_Witness ==
    /\ event = "endpoints_changed"
    /\ Resolved.kind = "value"
    /\ Rendered(Resolved)
    /\ ~failed
    /\ pc = "done"

NotInstalled == BlockedStatus("isc-stork-server is not installed")
RelationMissing == BlockedStatus("database relation missing")
RelationIncomplete ==
    BlockedStatus("database relation incomplete, check the logs")
NotRunning == BlockedStatus("isc-stork-server is not running")

\* the pass has run collect-status to its end and published a status
Published == pc = "done" /\ ~failed

\* C5: when the workload is not installed (get_version gives None),
\* collect-status does not fail and the status it publishes is
\* Blocked(not installed), the only status added, whatever the relation
\* instances and their data are.
C5_NotInstalledBlocks ==
    [][(pc = "collect" /\ version = None)
          => /\ ~failed'
             /\ collected' = <<NotInstalled>>
             /\ unit_status' = NotInstalled]_vars

\* a pass on an uninstalled workload with a relation instance and an empty
\* snapshot, where _connection_string would raise
C5_Witness ==
    /\ Published
    /\ version = None
    /\ relations > 0
    /\ relation_data = <<>>
    /\ unit_status = NotInstalled

C7_NotRunningBlocks ==
    (Published /\ version # None /\ Resolved.kind = "value" /\ ~running)
        => /\ unit_status = NotRunning
           /\ collected = <<NotRunning, ActiveStatus(get_status)>>

C7_Witness ==
    /\ Published
    /\ version # None
    /\ Resolved.kind = "value"
    /\ ~running
    /\ unit_status = NotRunning

C9_StartActive ==
    (Published /\ event = "start" /\ version # None /\ relations = 0
               /\ deferred = 0)
        => /\ unit_status = ActiveStatus("")
           /\ workload_version # None

\* the keys of the first instance's data that _connection_string requires
LacksRequired(data) ==
    data.username = None \/ data.password = None \/ data.endpoints = None

\* C10: whenever the relation instance consulted (the first one fetched)
\* lacks username, password or endpoints, _connection_string returns None,
\* whatever the other keys and database hold.
C10_MissingFieldNone ==
    (pc = "done" /\ relations > 0 /\ relation_data # <<>>
                 /\ LacksRequired(relation_data[1]))
        => descriptor = RNone

\* endpoints alone is missing, the other keys are there
C10_Witness ==
    /\ pc = "done"
    /\ relations > 0
    /\ relation_data # <<>>
    /\ relation_data[1].endpoints = None
    /\ relation_data[1].username # None
    /\ relation_data[1].password # None
    /\ relation_data[1].database # None
    /\ descriptor = RNone


(***************************************************************************)
(* The parts of an endpoints string, read off the string itself.           *)
(***************************************************************************)
Colons(ep) == {i \in 1..Len(ep) : ep[i] = ":"}

FirstColon(ep) == CHOOSE i \in Colons(ep) : \A j \in Colons(ep) : i <= j

\* the text before the colon and the text after it
HostPart(ep) == SubSeq(ep, 1, FirstColon(ep) - 1)
PortPart(ep) == SubSeq(ep, FirstColon(ep) + 1, Len(ep))

\* the snapshot has a first instance, with username, password and endpoints
Populated ==
    /\ relations > 0
    /\ relation_data # <<>>
    /\ ~LacksRequired(relation_data[1])

\* ... and its endpoints value is of the form host:port, with one colon
HostPort ==
    /\ Populated
    /\ Cardinality(Colons(relation_data[1].endpoints[1])) = 1

\* C11: whenever username, password and endpoints are all present and the
\* text before the colon of endpoints is empty or is the string "None",
\* _connection_string returns None.
C11_PlaceholderHostNone ==
    (pc = "done" /\ HostPort
       /\ HostPart(relation_data[1].endpoints[1]) \in {<<>>, NoneStr})
        => descriptor = RNone

\* the host is the text "None" and a port follows
C11_Witness ==
    /\ pc = "done"
    /\ HostPort
    /\ HostPart(relation_data[1].endpoints[1]) = NoneStr
    /\ PortPart(relation_data[1].endpoints[1]) # <<>>
    /\ descriptor = RNone


\* C12: whenever username, password and endpoints are present and endpoints
\* is host:port with a host that is neither empty nor "None",
\* _connection_string returns a descriptor with dbuser = username,
\* dbpass = password, dbhost = the host part, dbport = the port part,
\* dbname = database (None when the key is absent) and dbopts = the fixed
\* options string.
C12_DescriptorEqualsInput ==
    (pc = "done" /\ HostPort
       /\ HostPart(relation_data[1].endpoints[1]) \notin {<<>>, NoneStr})
        => descriptor =
              RValue([dbname |-> relation_data[1].database,
                      dbuser |-> relation_data[1].username,
                      dbhost |-> HostPart(relation_data[1].endpoints[1]),
                      dbpass |-> relation_data[1].password,
                      dbport |-> PortPart(relation_data[1].endpoints[1]),
                      dbopts |-> "connect_timeout=5 keepalives=1 keepalives_idle=30 keepalives_count=1 tcp_user_timeout=30"])

\* a descriptor whose host and port differ and whose database is absent
C12_Witness ==
    /\ pc = "done"
    /\ HostPort
    /\ relation_data[1].database = None
    /\ descriptor.kind = "value"
    /\ descriptor.desc.dbname = None
    /\ descriptor.desc.dbhost = <<"h">>
    /\ descriptor.desc.dbport = <<"5">>


\* a relation instance is reported and nothing was fetched for it
EmptySnapshot == relations > 0 /\ relation_data = <<>>

\* C13: in a pass where a relation instance exists and the fetched snapshot
\* is empty, _connection_string raises and does not return None: a handler
\* that reads it fails with no collaborator called and no deferral, and
\* collect-status, which reads it once the workload is installed, fails
\* too, so that the only status such a pass can publish is
\* Blocked(not installed), never "relation incomplete".
C13_EmptySnapshotRaises ==
    (event # "none" /\ EmptySnapshot)
        => /\ Resolved = RRaise("StopIteration")
           /\ ~event_deferred
           /\ event \in ConfigEvents
                 => (failed /\ descriptor = RRaise("StopIteration")
                            /\ calls = <<>>)
           /\ (pc = "done" /\ version # None) => failed
           /\ Published => collected = <<NotInstalled>>
           /\ collected # <<RelationIncomplete>>

C13_Witness ==
    /\ event = "config_changed"
    /\ EmptySnapshot
    /\ version # None
    /\ descriptor = RRaise("StopIteration")
    /\ failed
    /\ ~event_deferred


\* the step in which the handler of event ev runs
HandlerStep(ev) == ready /\ event' = ev

\* C14: the relation-broken handler does nothing: it invokes no
\* collaborator, does not defer, does not fail, sets no status and leaves
\* the relations, the workload, the recorded version and the deferred
\* notices as they were, whatever these are.
C14_RelationBrokenNoOp ==
    [][HandlerStep("relation_broken")
          => /\ calls' = <<>>
             /\ ~event_deferred'
             /\ ~failed'
             /\ descriptor' = NotEvaluated
             /\ pc' = "collect"
             /\ UNCHANGED <<env_vars, workload_version, unit_status,
                            deferred>>]_vars

\* the handler has run after the last relation instance went away, on an
\* installed and running workload whose status was Active
C14_Witness ==
    /\ event = "relation_broken"
    /\ pc = "collect"
    /\ relations = 0
    /\ version # None
    /\ running
    /\ unit_status.name = "active"


\* the step of a config-changed handler, fresh or re-emitted, that defers
DeferStep == HandlerStep("config_changed") /\ event_deferred'

\* C15 (as claimed): a config-changed pass that ends in Defer invokes no
\* collaborator and leaves the unit's recorded workload version unchanged.
C15_DeferChangesNothing ==
    [][DeferStep
          => /\ calls' = <<>>
             /\ workload_version' = workload_version]_vars

\* C15 (amended): a config-changed pass that ends in Defer invokes no
\* collaborator, does not fail and leaves the relations, the workload and
\* the unit status unchanged, but it records the workload version first:
\* the recorded version becomes the current version when get_version gives
\* one and stays as it was otherwise.
C15_DeferRecordsVersion ==
    [][DeferStep
          => /\ calls' = <<>>
             /\ ~failed'
             /\ UNCHANGED <<env_vars, unit_status>>
             /\ workload_version' = IF version # None THEN version
                                                     ELSE workload_version]_vars

\* a deferring pass on an installed workload has recorded its version
C15_Witness ==
    /\ event = "config_changed"
    /\ event_deferred
    /\ pc = "collect"
    /\ version # None
    /\ workload_version = version


\* C16: with several instances fetched, _connection_string gives what it
\* gives on the first instance alone: None when the first instance lacks a
\* required key although a later one is complete, and otherwise a result
\* in which no later instance shows.
C16_FirstInstanceOnly ==
    (pc = "done" /\ Len(relation_data) >= 2)
        => /\ descriptor = connection_string(1, <<relation_data[1]>>)
           /\ LacksRequired(relation_data[1]) => descriptor = RNone
           /\ descriptor.kind = "value"
                 => /\ descriptor.desc.dbuser = relation_data[1].username
                    /\ descriptor.desc.dbpass = relation_data[1].password
                    /\ descriptor.desc.dbname = relation_data[1].database
                    /\ descriptor.desc.dbhost
                          = HostPart(relation_data[1].endpoints[1])
                    /\ descriptor.desc.dbport
                          = PortPart(relation_data[1].endpoints[1])

\* the first instance lacks username, the second is complete
C16_Witness ==
    /\ pc = "done"
    /\ Len(relation_data) >= 2
    /\ relation_data[1].username = None
    /\ relation_data[2] = Complete
    /\ descriptor = RNone


\* an optional string that is there and is not ""
NonEmpty(opt) == opt # None /\ opt[1] # ""

\* C17 (as claimed): whenever _connection_string returns a descriptor,
\* dbuser, dbpass, dbhost and dbport are all present and non-empty, and
\* dbhost is not "None".
C17_DescriptorNonEmpty ==
    (pc = "done" /\ descriptor.kind = "value")
        => /\ NonEmpty(descriptor.desc.dbuser)
           /\ NonEmpty(descriptor.desc.dbpass)
           /\ descriptor.desc.dbhost \notin {<<>>, NoneStr}
           /\ descriptor.desc.dbport # <<>>

\* C17 (amended): whenever _connection_string returns a descriptor, dbuser
\* and dbpass are present (not None), dbhost is a non-empty string other
\* than "None" and dbport is a string, all as in the first instance; but
\* dbuser and dbpass may be the empty string when the relation data holds
\* one, and dbport is empty when endpoints ends in its colon.
C17_DescriptorPresent ==
    (pc = "done" /\ descriptor.kind = "value")
        => /\ descriptor.desc.dbuser # None
           /\ descriptor.desc.dbpass # None
           /\ descriptor.desc.dbuser = relation_data[1].username
           /\ descriptor.desc.dbpass = relation_data[1].password
           /\ descriptor.desc.dbhost \notin {<<>>, NoneStr}
           /\ descriptor.desc.dbhost \o <<":">> \o descriptor.desc.dbport
                 = relation_data[1].endpoints[1]
           /\ \A i \in 1..Len(descriptor.desc.dbport) :
                 descriptor.desc.dbport[i] # ":"

\* a descriptor with an empty user and an empty port
C17_Witness ==
    /\ pc = "done"
    /\ descriptor.kind = "value"
    /\ descriptor.desc.dbuser = Some("")
    /\ descriptor.desc.dbport = <<>>
    /\ descriptor.desc.dbname = None


\* what the handler of a configuration-affecting event decides, by the
\* event and the descriptor alone
Decision(ev, conn) ==
    CASE conn.kind = "raise" -> "fail"
      [] conn.kind = "none" /\ ev = "config_changed" -> "defer"
      [] conn.kind = "none" /\ ev = "database_created" -> "fail"
      [] conn.kind = "none" /\ ev = "endpoints_changed" -> "noop"
      [] OTHER -> "render"

\* what the handler of the pass did
Observed ==
    IF event_deferred THEN "defer"
    ELSE IF calls # <<>> /\ calls[1].arg.kind = "value" THEN "render"
    ELSE IF failed THEN "fail"
    ELSE "noop"

\* the status of the workload facts and the relation data
StatusOf(ver, run, rels, conn) ==
    IF ver = None THEN NotInstalled
    ELSE IF conn = RNone
    THEN IF rels = 0 THEN RelationMissing ELSE RelationIncomplete
    ELSE IF run THEN ActiveStatus(get_status)
    ELSE NotRunning

\* C18: a pass keeps nothing from earlier passes.  The descriptor its
\* handler reads, the descriptor it hands to every collaborator, and what
\* it decides (defer, render, fail, nothing) are given by the event and the
\* current relation data; the status it publishes is given by the current
\* workload facts and relation data; neither depends on the status, the
\* recorded version or the deferred notices left by earlier passes.
C18_PassIsFunctionOfInputs ==
    [][/\ (ready /\ event' \in ConfigEvents)
            => /\ descriptor' = Resolved
               /\ \A i \in 1..Len(calls') : calls'[i].arg = Resolved
               /\ Observed' = Decision(event', Resolved)
       /\ pc = "collect"
            => IF version # None /\ Resolved.kind = "raise"
               THEN failed' /\ unit_status' = unit_status
               ELSE /\ ~failed'
                    /\ unit_status'
                          = StatusOf(version, running, relations, Resolved)
      ]_vars

\* a re-emitted config-changed event renders and Active is published while
\* another deferred notice is still kept
C18_Witness ==
    /\ event = "config_changed"
    /\ reemitted
    /\ deferred > 0
    /\ Rendered(Resolved)
    /\ Published
    /\ workload_version = version
    /\ unit_status = ActiveStatus(get_status)


(***************************************************************************)
(* The charm under a runtime that goes on with a pass once its handler has *)
(* returned and that emits a deferred event again whenever it can, again   *)
(* and again.  The passes are those of config-changed, fresh and           *)
(* re-emitted: the other handlers neither read nor write the deferred      *)
(* notices, and what they change (the installed version, the service       *)
(* state) changes here between passes.                                     *)
(***************************************************************************)
NextLive ==
    \/ on_config_changed
    \/ reemit_config_changed
    \/ on_collect_unit_status
    \/ relation_created
    \/ relation_data_written
    \/ relation_removed
    \/ workload_changed

SpecLive ==
    /\ Init
    /\ [][NextLive]_vars
    /\ WF_vars(on_collect_unit_status)
    /\ SF_vars(reemit_config_changed)

\* the handler of a re-emitted config-changed event has rendered
RedeliveredRendered ==
    /\ event = "config_changed"
    /\ reemitted
    /\ Rendered(Resolved)

\* C19: a deferred config-changed notice is dropped only by a re-emitted
\* pass whose descriptor resolves and whose render_and_reload returns; a
\* re-emitted pass that finds the descriptor None defers again and keeps
\* every notice; and if the relation data becomes and stays such that the
\* descriptor resolves, then from any state with a deferred notice a
\* re-emitted pass eventually invokes render_and_reload with the descriptor
\* of that time.
C19_DeferredUntilResolved ==
    /\ [][deferred' < deferred
             => /\ deferred' = deferred - 1
                /\ HandlerStep("config_changed")
                /\ reemitted'
                /\ Resolved.kind = "value"
                /\ calls' = <<Call("render_and_reload", Resolved)>>
                /\ ~failed']_vars
    /\ [][(HandlerStep("config_changed") /\ reemitted' /\ Resolved = RNone)
             => /\ event_deferred'
                /\ deferred' = deferred
                /\ calls' = <<>>]_vars
    /\ (<>[](Resolved.kind = "value"))
          => [](deferred > 0 => <>RedeliveredRendered)

\* a re-emitted event has rendered after an earlier deferral, and its
\* notice is gone
C19_Witness ==
    /\ RedeliveredRendered
    /\ ~failed
    /\ deferred = 0
    /\ pc = "done"


\* C20 (as claimed): on a snapshot with a first instance that has username,
\* password and endpoints, whatever string endpoints is, _connection_string
\* returns None or a descriptor and does not raise.
C20_ResolveTotal ==
    (pc = "done" /\ Populated) => descriptor.kind \in {"none", "value"}

====
